---- MODULE Spec2Model ----
(***************************************************************************)
(* Model of the Finna catalog normalisation layer of library-companion:    *)
(* src/services/finnaApi.ts (transformRecord, getBookDetails,              *)
(* extractAvailability, extractHoldings) and the book detail screen that   *)
(* consumes it (src/app/book/[id].tsx).                                    *)
(*                                                                         *)
(* Decoded JSON values are tagged records, one tag per JavaScript kind, so *)
(* that the code's tests (Array.isArray, typeof, truthiness, ||) are       *)
(* modelled by what they do on each kind of value.                         *)
(***************************************************************************)
EXTENDS Integers, Sequences, FiniteSets, Bags, TLC

\* ------------------------------------------------------------------------
\* JavaScript values
\* ------------------------------------------------------------------------
Undef == [t |-> "undefined"]
Null == [t |-> "null"]
Str(s) == [t |-> "string", s |-> s]
Num(n) == [t |-> "number", n |-> n]
Arr(a) == [t |-> "array", a |-> a]
Obj(o) == [t |-> "object", o |-> o]

\* The number NaN.
NaN == [t |-> "NaN"]

\* The object literal {}.
EmptyObj == Obj(<<>>)

IsArray(v) == v.t = "array"
IsString(v) == v.t = "string"
IsNullish(v) == v.t \in {"undefined", "null"}

\* ToBoolean: undefined, null, "", 0 and NaN are falsy; arrays and objects
\* (also empty ones) are truthy.
Truthy(v) ==
  CASE v.t = "undefined" -> FALSE
    [] v.t = "null" -> FALSE
    [] v.t = "NaN" -> FALSE
    [] v.t = "string" -> v.s # ""
    [] v.t = "number" -> v.n # 0
    [] OTHER -> TRUE

\* a || b
Or(a, b) == IF Truthy(a) THEN a ELSE b

\* v.k for a value v that is not null/undefined: a key an object does not
\* carry, and any of the keys read here on a string, number or array, is
\* undefined.
Get(v, k) ==
  IF v.t = "object" /\ k \in DOMAIN v.o THEN v.o[k] ELSE Undef

\* v?.k
GetOpt(v, k) == IF IsNullish(v) THEN Undef ELSE Get(v, k)

\* s[0] of a string
FirstChar(s) == IF s = "" THEN Undef ELSE Str(SubSeq(s, 1, 1))

\* v[0] and v?.[0]
Index0(v) ==
  CASE IsNullish(v) -> Undef
    [] v.t = "array" -> IF Len(v.a) > 0 THEN v.a[1] ELSE Undef
    [] v.t = "string" -> FirstChar(v.s)
    [] v.t = "object" -> Get(v, "0")
    [] OTHER -> Undef

\* String(v)
RECURSIVE JsString(_)
JsString(v) ==
  CASE v.t = "string" -> v.s
    [] v.t = "number" -> ToString(v.n)
    [] v.t = "null" -> "null"
    [] v.t = "undefined" -> "undefined"
    [] v.t = "NaN" -> "NaN"
    [] v.t = "object" -> "[object Object]"
    [] v.t = "array" ->
         \* Array.prototype.join(","): null elements join as "".
         IF Len(v.a) = 0 THEN ""
         ELSE IF Len(v.a) = 1
              THEN (IF IsNullish(v.a[1]) THEN "" ELSE JsString(v.a[1]))
              ELSE (IF IsNullish(v.a[1]) THEN "" ELSE JsString(v.a[1]))
                   \o "," \o JsString(Arr(Tail(v.a)))

\* Whether the conversion of v to a primitive throws: a decoded object with
\* a toString key hides Object.prototype.toString behind a value that is
\* not a function, and an array converts each element that is not null.
RECURSIVE NoPrimitive(_)
NoPrimitive(v) ==
  CASE v.t = "object" -> "toString" \in DOMAIN v.o
    [] v.t = "array" ->
         \E i \in 1..Len(v.a) : ~IsNullish(v.a[i]) /\ NoPrimitive(v.a[i])
    [] OTHER -> FALSE

\* Array.isArray(x) ? x : [x]
Wrap(v) == IF IsArray(v) THEN v ELSE Arr(<<v>>)

\* ------------------------------------------------------------------------
\* Strings and numbers: trim, the reading of a string as a number, + and >
\* ------------------------------------------------------------------------
\* U+000B, the vertical tab.
VerticalTab == ""

\* The white space and line terminators String.prototype.trim strips, as
\* far as a string of the model holds one as one character: space, tab,
\* vertical tab, form feed, line feed and carriage return. The others
\* (U+00A0, U+FEFF, U+2028, U+2029, the space separators) lie beyond
\* U+007F, and a string of the model holds each as several characters.
WhiteSpace == {" ", "\t", VerticalTab, "\f", "\n", "\r"}

RECURSIVE TrimStart(_)
TrimStart(s) ==
  IF Len(s) > 0 /\ SubSeq(s, 1, 1) \in WhiteSpace
  THEN TrimStart(SubSeq(s, 2, Len(s)))
  ELSE s

RECURSIVE TrimEnd(_)
TrimEnd(s) ==
  IF Len(s) > 0 /\ SubSeq(s, Len(s), Len(s)) \in WhiteSpace
  THEN TrimEnd(SubSeq(s, 1, Len(s) - 1))
  ELSE s

\* query.trim()
Trim(s) == TrimEnd(TrimStart(s))

Digits == {"0", "1", "2", "3", "4", "5", "6", "7", "8", "9"}

RECURSIVE AllIn(_, _)
AllIn(s, chars) ==
  \/ s = ""
  \/ SubSeq(s, 1, 1) \in chars /\ AllIn(SubSeq(s, 2, Len(s)), chars)

\* The first position of s that holds one of chars, 0 when none does.
FirstOf(s, chars) ==
  LET found == {i \in 1..Len(s) : SubSeq(s, i, i) \in chars}
  IN IF found = {} THEN 0
     ELSE CHOOSE i \in found : \A j \in found : i <= j

RECURSIVE LeadingZeros(_)
LeadingZeros(s) ==
  IF s # "" /\ SubSeq(s, 1, 1) = "0"
  THEN 1 + LeadingZeros(SubSeq(s, 2, Len(s)))
  ELSE 0

DigitValue(c) == CHOOSE n \in 0..9 : ToString(n) = c

\* The number a string of decimal digits denotes.
RECURSIVE NatOf(_)
NatOf(s) ==
  IF s = "" THEN 0
  ELSE 10 * NatOf(SubSeq(s, 1, Len(s) - 1))
         + DigitValue(SubSeq(s, Len(s), Len(s)))

\* The digits of the literals 0x.., 0o.. and 0b.., by the letter after 0.
RadixDigits(letter) ==
  CASE letter \in {"x", "X"} ->
         Digits \cup {"a", "b", "c", "d", "e", "f", "A", "B", "C", "D", "E", "F"}
    [] letter \in {"o", "O"} -> {"0", "1", "2", "3", "4", "5", "6", "7"}
    [] letter \in {"b", "B"} -> {"0", "1"}
    [] OTHER -> {}

Radix(letter) ==
  CASE letter \in {"x", "X"} -> 16
    [] letter \in {"o", "O"} -> 8
    [] OTHER -> 2

RadixDigitValue(c) ==
  CASE c \in Digits -> DigitValue(c)
    [] c \in {"a", "A"} -> 10
    [] c \in {"b", "B"} -> 11
    [] c \in {"c", "C"} -> 12
    [] c \in {"d", "D"} -> 13
    [] c \in {"e", "E"} -> 14
    [] OTHER -> 15

\* The digit values of a text of digits, first digit first.
Numeral(s) == [i \in 1..Len(s) |-> RadixDigitValue(SubSeq(s, i, i))]

\* The digit values of the natural number n in a base, none for 0.
RECURSIVE NumeralOf(_, _)
NumeralOf(n, base) ==
  IF n = 0 THEN <<>>
  ELSE Append(NumeralOf(n \div base, base), n % base)

\* 0.a > 0.b for two sequences of decimal digit values read as fractions:
\* the first digit in which they differ decides, a missing digit being 0.
GreaterFraction(a, b) ==
  LET At(q, i) == IF i <= Len(q) THEN q[i] ELSE 0
      longest == IF Len(a) > Len(b) THEN Len(a) ELSE Len(b)
      differing == {i \in 1..longest : At(a, i) # At(b, i)}
  IN /\ differing # {}
     /\ LET first == CHOOSE i \in differing : \A j \in differing : i <= j
        IN At(a, first) > At(b, first)

\* a > b for two sequences of digit values without leading zeros, read as
\* whole numbers in one base.
GreaterNumeral(a, b) ==
  \/ Len(a) > Len(b)
  \/ Len(a) = Len(b) /\ GreaterFraction(a, b)

\* The significant digits of 2^-1075 = 5^1075 / 10^1075, half the smallest
\* positive number, all 752 of them: 2.4703...E-324. A decimal text at or
\* below it denotes 0.
HalfMinValue ==
  "247032822920623272088284396434110686182529901307162382212792"
  \o "841250337753635104375932649918180817996189898282347722858865"
  \o "463328355177969898199387398005390939063150356595155702263922"
  \o "908583924491051844359318028499365361525003193704576782492193"
  \o "656236698636584807570015857692699037063119282795585513329278"
  \o "343384093519780155312465972635795746227664652728272200563740"
  \o "064854999770965994704540208281662262378573934507363390079677"
  \o "619305775067401763246736009689513405355374585166611342237666"
  \o "786041621596804619144672918403005300575308490487653917113865"
  \o "916462395249126236538818796362393732804238910186723484976682"
  \o "350898633885879256283027559956575244555072551893136908362547"
  \o "791869486679949683240497058210285131854513962138377228261454"
  \o "37693412532098591327667236328125"

\* s followed by zeros, cut to n characters.
RECURSIVE Padded(_, _)
Padded(s, n) ==
  IF Len(s) >= n THEN SubSeq(s, 1, n) ELSE Padded(s \o "0", n)

\* Whether the text d1.d2d3... * 10^-324 of the significant digits sig
\* rounds to a positive number: it does when it lies above 2^-1075.
AboveHalfMinValue(sig) == GreaterFraction(Numeral(sig), Numeral(HalfMinValue))

\* The longest exponent text whose value is computed: a text with a longer
\* exponent and a mantissa that makes up for it is longer than a string
\* can be, so such an exponent takes the text to Infinity or to 0.
MaxExponentDigits == 9

\* Half the spacing of the numbers at the natural number n >= 1, as the
\* digit values of a fraction: 2^-53 = 5^53 / 10^53 at 1, doubled at every
\* power of 2 up to n. A digit doubles with a carry of the digit after it.
RECURSIVE HalfSpacing(_)
HalfSpacing(n) ==
  IF n < 2
  THEN Numeral("00000000000000011102230246251565404236316680908203125")
  ELSE LET half == HalfSpacing(n \div 2)
       IN [i \in 1..Len(half) |->
             (2 * half[i]
                + IF i < Len(half) /\ half[i + 1] >= 5 THEN 1 ELSE 0) % 10]

\* Whether n followed by the fraction digits rest rounds to a number above
\* n, for a natural number n >= 1: it does when the fraction lies above
\* half the spacing (at half the spacing the even neighbour, n, is taken).
AboveHalfSpacing(rest, n) == GreaterFraction(Numeral(rest), HalfSpacing(n))

\* Whether the unsigned decimal literal u (digits, a fraction, an exponent)
\* denotes a number above the natural number n.
DecimalExceeds(u, n) ==
  LET e == FirstOf(u, {"e", "E"})
      mantissa == IF e = 0 THEN u ELSE SubSeq(u, 1, e - 1)
      exponent == IF e = 0 THEN "" ELSE SubSeq(u, e + 1, Len(u))
      signed == exponent # "" /\ SubSeq(exponent, 1, 1) \in {"+", "-"}
      negative == signed /\ SubSeq(exponent, 1, 1) = "-"
      expDigits == IF signed THEN SubSeq(exponent, 2, Len(exponent))
                   ELSE exponent
      expSig == SubSeq(expDigits, LeadingZeros(expDigits) + 1, Len(expDigits))
      dot == FirstOf(mantissa, {"."})
      int == IF dot = 0 THEN mantissa ELSE SubSeq(mantissa, 1, dot - 1)
      frac == IF dot = 0 THEN "" ELSE SubSeq(mantissa, dot + 1, Len(mantissa))
      digits == int \o frac
      zeros == LeadingZeros(digits)
      sig == SubSeq(digits, zeros + 1, Len(digits))
      magnitude == Len(int) - zeros - 1
                     + (IF negative THEN 0 - NatOf(expSig) ELSE NatOf(expSig))
      whole == Numeral(Padded(sig, magnitude + 1))
      rest == IF magnitude + 1 >= Len(sig) THEN ""
              ELSE SubSeq(sig, magnitude + 2, Len(sig))
      limit == NumeralOf(n, 10)
  IN /\ AllIn(int, Digits) /\ AllIn(frac, Digits) /\ digits # ""
     /\ e # 0 => (expDigits # "" /\ AllIn(expDigits, Digits))
     /\ sig # ""
     /\ IF Len(expSig) > MaxExponentDigits THEN ~negative
        ELSE IF magnitude < 0
        THEN /\ n = 0
             /\ \/ magnitude > -324
                \/ magnitude = -324 /\ AboveHalfMinValue(sig)
        ELSE IF magnitude + 1 # Len(limit) THEN magnitude + 1 > Len(limit)
        ELSE \/ GreaterNumeral(whole, limit)
             \/ whole = limit /\ AboveHalfSpacing(rest, n)

\* Whether u is a hexadecimal, octal or binary literal above the natural
\* number n.
RadixExceeds(u, n) ==
  LET digits == SubSeq(u, 3, Len(u))
      sig == SubSeq(digits, LeadingZeros(digits) + 1, Len(digits))
  IN /\ Len(u) > 2 /\ SubSeq(u, 1, 1) = "0"
     /\ AllIn(digits, RadixDigits(SubSeq(u, 2, 2)))
     /\ GreaterNumeral(Numeral(sig), NumeralOf(n, Radix(SubSeq(u, 2, 2))))

\* Number(s) > n for a natural number n: the text is trimmed; a sign goes
\* with a decimal literal or Infinity only; the empty text is 0 and any
\* other text is NaN.
StringExceeds(s, n) ==
  LET t == Trim(s)
      signed == t # "" /\ SubSeq(t, 1, 1) \in {"+", "-"}
      u == IF signed THEN SubSeq(t, 2, Len(t)) ELSE t
  IN /\ t # "" /\ SubSeq(t, 1, 1) # "-"
     /\ \/ u = "Infinity"
        \/ ~signed /\ RadixExceeds(u, n)
        \/ DecimalExceeds(u, n)

\* v > n and n < v for a natural number n and a v that converts to a
\* primitive: a string is read as a number, an array through its text,
\* null is 0, undefined and an object are NaN.
Exceeds(v, n) ==
  CASE v.t = "number" -> v.n > n
    [] v.t = "string" -> StringExceeds(v.s, n)
    [] v.t = "array" -> StringExceeds(JsString(v), n)
    [] OTHER -> FALSE

\* v > 0
GreaterThanZero(v) == Exceeds(v, 0)

\* a + b for operands that convert to a primitive: text is joined as soon
\* as either operand is a string, an array or an object; otherwise numbers
\* are added, null counting 0 and undefined making NaN.
Plus(a, b) ==
  IF {a.t, b.t} \cap {"string", "array", "object"} # {}
  THEN Str(JsString(a) \o JsString(b))
  ELSE IF {a.t, b.t} \cap {"undefined", "NaN"} # {} THEN NaN
  ELSE Num((IF a.t = "null" THEN 0 ELSE a.n)
           + (IF b.t = "null" THEN 0 ELSE b.n))

\* ------------------------------------------------------------------------
\* Outcomes of a call: a returned value or a thrown error
\* ------------------------------------------------------------------------
TypeError == "TypeError"
InvalidBookData == "Invalid book data received from API"
RecordIdRequired == "Record ID is required"
ApiError == "API error"

Ok(v) == [k |-> "ok", v |-> v]
Throw(e) == [k |-> "throw", e |-> e]
NoCall == [k |-> "none"]

\* String(v), as the outcome of a call.
StringOf(v) == IF NoPrimitive(v) THEN Throw(TypeError) ELSE Ok(Str(JsString(v)))

\* ------------------------------------------------------------------------
\* transformRecord (src/services/finnaApi.ts:71-147)
\* ------------------------------------------------------------------------
\* typeof a === 'string' ? a : a.name || a.fullname || String(a)
AuthorElem(a) ==
  IF IsString(a) THEN Ok(a)
  ELSE IF IsNullish(a) THEN Throw(TypeError)
  ELSE IF Truthy(Get(a, "name")) THEN Ok(Get(a, "name"))
  ELSE IF Truthy(Get(a, "fullname")) THEN Ok(Get(a, "fullname"))
  ELSE StringOf(a)

\* typeof img === 'string' ? img : img.url || img.medium || img.small || String(img)
ImageElem(img) ==
  IF IsString(img) THEN Ok(img)
  ELSE IF IsNullish(img) THEN Throw(TypeError)
  ELSE IF Truthy(Get(img, "url")) THEN Ok(Get(img, "url"))
  ELSE IF Truthy(Get(img, "medium")) THEN Ok(Get(img, "medium"))
  ELSE IF Truthy(Get(img, "small")) THEN Ok(Get(img, "small"))
  ELSE StringOf(img)

\* value tried before translated.
FormatElemValueFirst(f) ==
  IF IsString(f) THEN Ok(f)
  ELSE IF IsNullish(f) THEN Throw(TypeError)
  ELSE IF Truthy(Get(f, "value")) THEN Ok(Get(f, "value"))
  ELSE IF Truthy(Get(f, "translated")) THEN Ok(Get(f, "translated"))
  ELSE StringOf(f)

\* Lines 101-106.
FormatElem(f) ==
  IF IsString(f) THEN Ok(f)
  ELSE IF IsNullish(f) THEN Throw(TypeError)
  ELSE IF Truthy(Get(f, "translated")) THEN Ok(Get(f, "translated"))
  ELSE IF Truthy(Get(f, "value")) THEN Ok(Get(f, "value"))
  ELSE StringOf(f)

\* Lines 246-250.
SeriesElem(x) ==
  IF IsString(x) THEN Ok(x)
  ELSE IF IsNullish(x) THEN Throw(TypeError)
  ELSE IF Truthy(Get(x, "name")) THEN Ok(Get(x, "name"))
  ELSE StringOf(x)

\* The map callback of each variant field.
ElemOf(field, x) ==
  CASE field = "authors" -> AuthorElem(x)
    [] field = "images" -> ImageElem(x)
    [] field = "formats" -> FormatElem(x)
    [] field = "series" -> SeriesElem(x)

\* arr.map(callback): reading a property of a null element raises a
\* TypeError, which ends the call.
MapElems(field, arr) ==
  LET rs == [i \in 1..Len(arr.a) |-> ElemOf(field, arr.a[i])]
  IN IF \E i \in 1..Len(arr.a) : rs[i].k = "throw"
     THEN Throw(TypeError)
     ELSE Ok(Arr([i \in 1..Len(arr.a) |-> rs[i].v]))

\* Lines 73-82.
AuthorsOf(record) ==
  LET pa == Get(record, "primaryAuthors")
      au == Get(record, "authors")
  IN IF Truthy(pa) /\ IsArray(pa) THEN Ok(pa)
     ELSE IF Truthy(au)
          THEN IF IsArray(au) THEN MapElems("authors", au)
               ELSE IF IsString(au) THEN Ok(Arr(<<au>>))
               ELSE Ok(Arr(<<>>))
          ELSE Ok(Arr(<<>>))

\* Lines 85-95.
ImagesOf(record) ==
  LET im == Get(record, "images")
  IN IF Truthy(im)
     THEN IF IsArray(im) THEN MapElems("images", im)
          ELSE IF IsString(im) THEN Ok(Arr(<<im>>))
          ELSE Ok(Arr(<<>>))
     ELSE Ok(Arr(<<>>))

\* Lines 98-107.
FormatsOf(record) ==
  LET fo == Get(record, "formats")
  IN IF Truthy(fo) THEN MapElems("formats", Wrap(fo)) ELSE Ok(Arr(<<>>))

\* publishers = record.publishers, without the coercion to an array.
PublishersOfUnwrapped(record) ==
  LET pu == Get(record, "publishers")
  IN IF Truthy(pu) THEN pu ELSE Arr(<<>>)

\* Lines 110-113.
PublishersOf(record) ==
  LET pu == Get(record, "publishers")
  IN IF Truthy(pu) THEN Wrap(pu) ELSE Arr(<<>>)

\* Lines 116-121.
DescriptionsOf(record) ==
  LET su == Get(record, "summaries")
      de == Get(record, "description")
  IN IF Truthy(su) THEN Wrap(su)
     ELSE IF Truthy(de) THEN Wrap(de)
     ELSE Arr(<<>>)

\* Lines 124-127.
LanguagesOf(record) ==
  LET la == Get(record, "languages")
  IN IF Truthy(la) THEN Wrap(la) ELSE Arr(<<>>)

\* record.title || record.titleFull || record.titleMain || fallback
TitleOf(record, fallback) ==
  Or(Get(record, "title"),
     Or(Get(record, "titleFull"), Or(Get(record, "titleMain"), fallback)))

\* The identifier keys tried with recordId before id.
IdOfRecordIdFirst(record) ==
  Or(Get(record, "recordId"), Or(Get(record, "id"), Get(record, "@id")))

\* record.id || record.recordId || record['@id']
IdOf(record) ==
  Or(Get(record, "id"), Or(Get(record, "recordId"), Get(record, "@id")))

\* The object literal of lines 129-146, given the six sequences.
RecordLiteral(record, authors, images, formats, publishers, descriptions, languages) ==
  Obj([id |-> Or(IdOf(record), Str("")),
       title |-> TitleOf(record, Str("")),
       authors |-> authors,
       author |-> Or(Index0(authors), Or(Get(record, "authors"), Str(""))),
       year |-> Or(Get(record, "year"),
                   Or(Get(record, "publicationYear"),
                      Or(Index0(Get(record, "publicationDates")), Str("")))),
       images |-> images,
       image |-> Or(Index0(images), Or(Get(record, "image"), Str(""))),
       formats |-> formats,
       format |-> formats,
       publishers |-> publishers,
       publisher |-> Or(Index0(publishers),
                        Or(Get(record, "publisher"), Str(""))),
       descriptions |-> descriptions,
       description |-> Or(Index0(descriptions),
                          Or(Get(record, "description"), Str(""))),
       languages |-> languages,
       language |-> languages,
       url |-> Or(Get(record, "url"),
                  Or(Get(record, "recordPage"),
                     Or(GetOpt(Get(record, "links"), "recordPage"),
                        Str(""))))])

\* transformRecord(record): the canonical record, or the TypeError raised
\* by the first property read on a null value.
transformRecord(record) ==
  IF IsNullish(record) THEN Throw(TypeError)
  ELSE LET authors == AuthorsOf(record)
           images == ImagesOf(record)
           formats == FormatsOf(record)
       IN IF authors.k = "throw" \/ images.k = "throw" \/ formats.k = "throw"
          THEN Throw(TypeError)
          ELSE Ok(RecordLiteral(record, authors.v, images.v, formats.v,
                                PublishersOf(record), DescriptionsOf(record),
                                LanguagesOf(record)))

\* ------------------------------------------------------------------------
\* extractAvailability (src/services/finnaApi.ts:291-348)
\* ------------------------------------------------------------------------
\* The elements of all three keys taken together.
HoldingsSourceMerged(data) ==
  Arr((IF Truthy(Get(data, "holdings"))
       THEN Wrap(Get(data, "holdings")).a ELSE <<>>)
      \o (IF Truthy(Get(data, "availability"))
          THEN Wrap(Get(data, "availability")).a ELSE <<>>)
      \o (IF Truthy(Get(data, "buildings"))
          THEN Wrap(Get(data, "buildings")).a ELSE <<>>))

\* Lines 293-307: the holdings-bearing key that is used.
HoldingsSource(data) ==
  IF Truthy(Get(data, "holdings")) THEN Wrap(Get(data, "holdings"))
  ELSE IF Truthy(Get(data, "availability"))
       THEN Wrap(Get(data, "availability"))
  ELSE IF Truthy(Get(data, "buildings")) THEN Wrap(Get(data, "buildings"))
  ELSE Arr(<<>>)

\* h.location || h.branch || h.building || h.name || 'Unknown'
LocationName(h) ==
  Or(Get(h, "location"),
     Or(Get(h, "branch"),
        Or(Get(h, "building"), Or(Get(h, "name"), Str("Unknown")))))

\* h.available || (h.availability === 'available' || h.status === 'available' ? 1 : 0)
AvailableCount(h) ==
  Or(Get(h, "available"),
     IF Get(h, "availability") = Str("available")
        \/ Get(h, "status") = Str("available")
     THEN Num(1) ELSE Num(0))

\* h.total || h.count || 1
TotalCount(h) == Or(Get(h, "total"), Or(Get(h, "count"), Num(1)))

\* The element pushed on locations (lines 322-328).
LocationEntry(h) ==
  Obj([location |-> LocationName(h),
       available |-> AvailableCount(h),
       callNumber |-> Or(Get(h, "callNumber"),
                         Or(Get(h, "callnumber"),
                            Or(Get(h, "shelfMark"), Str("")))),
       dueDate |-> Or(Get(h, "dueDate"),
                      Or(Get(h, "duedate"),
                         Or(Get(h, "nextAvailableDate"), Str("")))),
       status |-> Or(Get(h, "status"),
                     Or(Get(h, "availability"),
                        IF GreaterThanZero(AvailableCount(h))
                        THEN Str("available")
                        ELSE Str("unavailable")))])

\* available += availableCount; total += totalCount over holdings[1..n],
\* in the order of forEach, from let available = 0 and let total = 0, for
\* holdings whose visit does not throw. A count is passed on as it is, so
\* += adds numbers and joins text.
RECURSIVE SumAvailable(_, _)
SumAvailable(hs, n) ==
  IF n = 0 THEN Num(0)
  ELSE Plus(SumAvailable(hs, n - 1), AvailableCount(hs[n]))

RECURSIVE SumTotal(_, _)
SumTotal(hs, n) ==
  IF n = 0 THEN Num(0) ELSE Plus(SumTotal(hs, n - 1), TotalCount(hs[n]))

\* Whether the visit of h throws: a property is read of null or undefined,
\* or += converts a count that has no primitive.
HoldingThrows(h) ==
  \/ IsNullish(h)
  \/ NoPrimitive(AvailableCount(h))
  \/ NoPrimitive(TotalCount(h))

\* Lines 339-347: the counts fallback, or null.
CountsFallback(data) ==
  IF Get(data, "availableCount") # Undef \/ Get(data, "totalCount") # Undef
  THEN Ok(Obj([available |-> Or(Get(data, "availableCount"), Num(0)),
               total |-> Or(Get(data, "totalCount"), Num(0)),
               locations |-> Arr(<<>>)]))
  ELSE Ok(Null)

extractAvailability(data) ==
  LET holdings == HoldingsSource(data).a
  IN IF IsNullish(data) THEN Throw(TypeError)
     ELSE IF Len(holdings) > 0
     THEN IF \E i \in 1..Len(holdings) : HoldingThrows(holdings[i])
          THEN Throw(TypeError)
          ELSE Ok(Obj([available |-> SumAvailable(holdings, Len(holdings)),
                       total |-> SumTotal(holdings, Len(holdings)),
                       locations |->
                         Arr([i \in 1..Len(holdings) |->
                                LocationEntry(holdings[i])])]))
     ELSE CountsFallback(data)

\* ------------------------------------------------------------------------
\* extractHoldings (src/services/finnaApi.ts:353-363)
\* ------------------------------------------------------------------------
HoldingEntry(h) ==
  Obj([location |-> Or(Get(h, "location"), Or(Get(h, "branch"), Str(""))),
       callNumber |-> Or(Get(h, "callNumber"),
                         Or(Get(h, "callnumber"), Str(""))),
       status |-> Or(Get(h, "status"),
                     Or(Get(h, "availability"), Str("unknown"))),
       dueDate |-> Or(Get(h, "dueDate"), Or(Get(h, "duedate"), Str("")))])

extractHoldingsAnySource(data) ==
  LET holdings == HoldingsSource(data).a
  IN IF IsNullish(data) THEN Throw(TypeError)
     ELSE IF \E i \in 1..Len(holdings) : IsNullish(holdings[i])
     THEN Throw(TypeError)
     ELSE Ok(Arr([i \in 1..Len(holdings) |-> HoldingEntry(holdings[i])]))

\* Lines 353-363.
extractHoldings(data) ==
  IF IsNullish(data) THEN Throw(TypeError)
  ELSE IF ~Truthy(Get(data, "holdings")) THEN Ok(Arr(<<>>))
  ELSE LET holdings == Wrap(Get(data, "holdings")).a
       IN IF \E i \in 1..Len(holdings) : IsNullish(holdings[i])
          THEN Throw(TypeError)
          ELSE Ok(Arr([i \in 1..Len(holdings) |-> HoldingEntry(holdings[i])]))

\* ------------------------------------------------------------------------
\* searchBooks (src/services/finnaApi.ts:20-66)
\* ------------------------------------------------------------------------
QueryTooShort == "Search query must be at least 2 characters"

\* !query || query.trim().length < 2
InvalidQuery(query) == query = "" \/ Len(Trim(query)) < 2

\* data.records.map(record => transformRecord(record))
TransformAll(records) ==
  IF \E i \in 1..Len(records) : transformRecord(records[i]).k = "throw"
  THEN Throw(TypeError)
  ELSE Ok(Arr([i \in 1..Len(records) |-> transformRecord(records[i]).v]))

\* v.length
Length(v) ==
  CASE v.t = "array" -> Num(Len(v.a))
    [] v.t = "string" -> Num(Len(v.s))
    [] OTHER -> Get(v, "length")

\* data.records = records
SetRecords(data, records) ==
  Obj([k \in DOMAIN data.o \cup {"records"} |->
         IF k = "records" THEN records ELSE data.o[k]])

\* Lines 56-61, with records already settled.
EnsureResultCount(data) ==
  IF Get(data, "resultCount") = Undef /\ Truthy(Get(data, "records"))
  THEN Obj([k \in DOMAIN data.o \cup
                   (IF Length(Get(data, "records")) = Undef THEN {}
                    ELSE {"resultCount"}) |->
             IF k = "resultCount" THEN Length(Get(data, "records"))
             ELSE data.o[k]])
  ELSE data

\* Lines 46-61 on the decoded body: reading data.records of a null body
\* throws, and the catch of line 64 rethrows.
SearchResultOf(data) ==
  LET records == Get(data, "records")
  IN IF IsNullish(data) THEN Throw(TypeError)
     ELSE IF Truthy(records) /\ IsArray(records)
     THEN LET mapped == TransformAll(records.a)
          IN IF mapped.k = "throw" THEN mapped
             ELSE Ok(EnsureResultCount(SetRecords(data, mapped.v)))
     ELSE IF Get(data, "resultCount") = Num(0)
          THEN Ok(EnsureResultCount(SetRecords(data, Arr(<<>>))))
     ELSE Ok(EnsureResultCount(data))

\* Whether searchBooks(query) reaches the fetch of line 40.
Fetches(query) == ~InvalidQuery(query)

\* searchBooks(query) when the fetch answers with status httpOk and the
\* decoded body responseData.
searchBooks(query, httpOk, responseData) ==
  IF InvalidQuery(query) THEN Throw(QueryTooShort)
  ELSE IF ~httpOk THEN Throw(ApiError)
  ELSE SearchResultOf(responseData)

\* ------------------------------------------------------------------------
\* getBookImageUrl (src/services/finnaApi.ts:368-385)
\* ------------------------------------------------------------------------
FinnaHost == "https://api.finna.fi"

\* s.startsWith('http')
StartsWithHttp(s) == Len(s) >= 4 /\ SubSeq(s, 1, 4) = "http"

\* v.length > 0, for a truthy v.
NonEmptyLength(v) == GreaterThanZero(Length(v))

\* Lines 372-375 and 379-382, for a truthy imageUrl: startsWith is a method
\* of strings only.
FullUrl(imageUrl) ==
  IF ~IsString(imageUrl) THEN Throw(TypeError)
  ELSE IF ~StartsWithHttp(imageUrl.s) THEN Ok(Str(FinnaHost \o imageUrl.s))
  ELSE Ok(imageUrl)

\* Lines 368-385. Reading record.images of null or undefined throws, and so
\* does the comparison of line 369 when the length has no primitive.
getBookImageUrl(record) ==
  LET images == Get(record, "images")
      image == Get(record, "image")
  IN IF IsNullish(record) THEN Throw(TypeError)
     ELSE IF Truthy(images) /\ NoPrimitive(Length(images))
     THEN Throw(TypeError)
     ELSE IF Truthy(images) /\ NonEmptyLength(images)
     THEN IF Truthy(Index0(images)) THEN FullUrl(Index0(images))
          ELSE Ok(Index0(images))
     ELSE IF Truthy(image) THEN FullUrl(image)
     ELSE Ok(Null)

\* ------------------------------------------------------------------------
\* getBookDetails (src/services/finnaApi.ts:152-286)
\* ------------------------------------------------------------------------
\* The identifier of the response itself tried before its records array.
ResolveEnvelopeBareFirst(responseData) ==
  LET records == Get(responseData, "records")
  IN IF IsNullish(responseData) THEN Throw(TypeError)
     ELSE IF Truthy(IdOf(responseData)) THEN Ok(responseData)
     ELSE IF Truthy(records) /\ IsArray(records) /\ Len(records.a) > 0
          THEN Ok(records.a[1])
     ELSE Throw(InvalidBookData)

\* Lines 182-193: the record of the response, or the error thrown when the
\* response has neither a non-empty records array nor an identifier.
\* Reading responseData.records of a null body throws, and the catch of
\* line 284 rethrows.
ResolveEnvelope(responseData) ==
  LET records == Get(responseData, "records")
  IN IF IsNullish(responseData) THEN Throw(TypeError)
     ELSE IF Truthy(records) /\ IsArray(records) /\ Len(records.a) > 0
     THEN Ok(records.a[1])
     ELSE IF Truthy(IdOf(responseData)) THEN Ok(responseData)
     ELSE Throw(InvalidBookData)

\* The check of line 196 left out.
InvalidRecordUnchecked(data) == FALSE

\* Line 196: !data || (!data.id && !data.recordId && !data['@id'])
InvalidRecord(data) == ~Truthy(data) \/ ~Truthy(IdOf(data))

\* The literal placeholder of line 208.
Untitled == Str("Untitled")

\* The title of the transformed record kept as it is.
FinalTitleNoFallback(transformedRecord, data) ==
  Get(transformedRecord, "title")

\* Lines 205-209: the title of the transformed record, re-derived from the
\* raw data when it is empty.
FinalTitle(transformedRecord, data) ==
  IF ~Truthy(Get(transformedRecord, "title"))
  THEN TitleOf(data, Untitled)
  ELSE Get(transformedRecord, "title")

\* A detail-only field read from its primary key alone.
TwoKeysPrimaryOnly(data, primary, secondary) ==
  IF Truthy(Get(data, primary)) THEN Wrap(Get(data, primary)) ELSE Arr(<<>>)

\* primary ? toArray(primary) : secondary ? toArray(secondary) : []
\* (lines 212-240 and 260-264).
TwoKeys(data, primary, secondary) ==
  IF Truthy(Get(data, primary)) THEN Wrap(Get(data, primary))
  ELSE IF Truthy(Get(data, secondary)) THEN Wrap(Get(data, secondary))
  ELSE Arr(<<>>)

\* Lines 243-258.
SeriesOf(data) ==
  IF Truthy(Get(data, "series"))
  THEN MapElems("series", Wrap(Get(data, "series")))
  ELSE IF Truthy(Get(data, "seriesNames"))
       THEN MapElems("series", Wrap(Get(data, "seriesNames")))
  ELSE Ok(Arr(<<>>))

\* data.summaries || (data.summary ? [data.summary] : [])
SummaryOf(data) ==
  Or(Get(data, "summaries"),
     IF Truthy(Get(data, "summary")) THEN Arr(<<Get(data, "summary")>>)
     ELSE Arr(<<>>))

\* Lines 201-281, for a record that passed the identifier check.
BookDetailOf(data) ==
  LET transformed == transformRecord(data)
      series == SeriesOf(data)
      availability == extractAvailability(data)
      holdings == extractHoldings(data)
  IN IF transformed.k = "throw" \/ series.k = "throw"
        \/ availability.k = "throw" \/ holdings.k = "throw"
     THEN Throw(TypeError)
     ELSE Ok(Obj(
       [availability |-> availability.v,
        holdings |-> holdings.v,
        summary |-> SummaryOf(data),
        subjects |-> TwoKeys(data, "subjects", "subject"),
        tableOfContents |-> TwoKeys(data, "tableOfContents", "contents"),
        isbn |-> TwoKeys(data, "isbn", "isbns"),
        issn |-> TwoKeys(data, "issn", "issns"),
        physicalDescriptions |->
          TwoKeys(data, "physicalDescriptions", "physicalDescription"),
        series |-> series.v,
        genres |-> TwoKeys(data, "genres", "genre")]
       @@ [transformed.v.o EXCEPT
             !.title = FinalTitle(transformed.v, data)]))

\* What getBookDetails hands to transformRecord: the resolved record when
\* the call reaches line 202, NoCall when it fails before that line.
NormalizerInput(recordId, httpOk, responseData) ==
  IF ~Truthy(recordId) \/ ~httpOk THEN NoCall
  ELSE LET data == ResolveEnvelope(responseData)
       IN IF data.k = "throw" THEN NoCall
          ELSE IF InvalidRecord(data.v) THEN NoCall
          ELSE Ok(data.v)

\* getBookDetails(recordId) when the fetch answers with status httpOk and
\* the decoded body responseData.
getBookDetails(recordId, httpOk, responseData) ==
  IF ~Truthy(recordId) THEN Throw(RecordIdRequired)
  ELSE IF ~httpOk THEN Throw(ApiError)
  ELSE LET data == ResolveEnvelope(responseData)
       IN IF data.k = "throw" THEN data
          ELSE IF InvalidRecord(data.v) THEN Throw(InvalidBookData)
          ELSE BookDetailOf(data.v)

\* ------------------------------------------------------------------------
\* The decoded JSON the operations are run on
\* ------------------------------------------------------------------------
\* The longest array of a raw field.
MaxLen == 2

\* Arrays of at most MaxLen elements of E.
Arrays(E) == {Arr(a) : a \in UNION {[1..n -> E] : n \in 0..MaxLen}}

\* A variant field: absent, a bare element, or an array.
Shapes(E) == {Undef} \cup E \cup Arrays(E)

\* o with key k set to v; an undefined v leaves the key out.
With(o, k, v) == IF v = Undef THEN o ELSE Obj((k :> v) @@ o.o)

\* An identified record with no other key.
Base == Obj([id |-> Str("x1")])

AuthorElems ==
  {Str("Ann"), Null, Num(7), EmptyObj, Obj([name |-> Str("Bo")]),
   Obj([fullname |-> Str("Cy")]),
   Obj([name |-> Str(""), fullname |-> Str("Di")])}

PrimaryAuthorsShapes ==
  {Undef, Arr(<<>>), Arr(<<Str("Pa"), Str("Pb")>>),
   Arr(<<Obj([name |-> Str("Pc")])>>), Str("Pd")}

AuthorsFamily ==
  {With(With(Base, "primaryAuthors", pa), "authors", au) :
     pa \in PrimaryAuthorsShapes, au \in Shapes(AuthorElems)}

ImageElems ==
  {Str("/img/1.jpg"), Str("http://h/2.jpg"), Str(""), Null, EmptyObj,
   Obj([url |-> Str("/u.jpg")]), Obj([medium |-> Str("/m.jpg")]),
   Obj([small |-> Str("/s.jpg"), medium |-> Str("")])}

ImagesFamily ==
  {With(With(Base, "images", im), "image", i) :
     im \in Shapes(ImageElems), i \in {Undef, Str("/one.jpg")}}

FormatElems ==
  {Str("Book"), Null, EmptyObj, Obj([value |-> Str("Book")]),
   Obj([translated |-> Str("Kirja")]),
   Obj([value |-> Str("Book"), translated |-> Str("Kirja")]),
   Obj([value |-> Str("Video"), translated |-> Str("")]), Num(7),
   Obj([toString |-> Num(1)])}

FormatsFamily == {With(Base, "formats", f) : f \in Shapes(FormatElems)}

PlainElems == {Str("a"), Str("b"), Str(""), Null}

PublishersFamily ==
  {With(With(Base, "publishers", ps), "publisher", p) :
     ps \in Shapes(PlainElems), p \in {Undef, Str("p")}}

DescriptionsFamily ==
  {With(With(Base, "summaries", su), "description", d) :
     su \in Shapes(PlainElems),
     d \in {Undef, Str("d"), Arr(<<Str("d"), Str("e")>>)}}

LanguagesFamily == {With(Base, "languages", l) : l \in Shapes(PlainElems)}

\* The scalar chains: identifiers and titles, absent, empty or set.
ScalarsOf(s) == {Undef, Str(""), Str(s)}

\* A title key may also hold null.
TitlesOf(s) == ScalarsOf(s) \cup {Null}

IdTitleFamily ==
  {With(With(With(With(With(With(EmptyObj, "id", i), "recordId", r), "@id", a),
                  "title", t), "titleFull", tf), "titleMain", tm) :
     i \in ScalarsOf("x1"), r \in ScalarsOf("x2"), a \in ScalarsOf("x3"),
     t \in TitlesOf("T1"), tf \in TitlesOf("T2"), tm \in TitlesOf("T3")}

UrlYearFamily ==
  {With(With(With(With(With(With(Base, "url", u), "recordPage", rp), "links", l),
                  "year", y), "publicationYear", py), "publicationDates", pd) :
     u \in {Undef, Str("/u")}, rp \in {Undef, Str("/rp")},
     l \in {Undef, Null, EmptyObj, Obj([recordPage |-> Str("/l")])},
     y \in {Undef, Str("2001")}, py \in {Undef, Num(2002)},
     pd \in {Undef, Null, Arr(<<>>), Arr(<<Str("2003")>>), Str("1999"),
             Obj("0" :> Str("zero"))}}

\* Holdings elements. The payload is not validated, so a count field
\* (available, total, count) may be absent, negative, or text.
CountedHoldings ==
  {With(With(With(With(Obj([location |-> Str("Central")]), "available", av),
                  "status", st), "total", to), "count", co) :
     av \in {Undef, Num(0), Num(2), Num(-1), Str("2")},
     st \in {Undef, Str("available"), Str("on loan")},
     to \in {Undef, Num(0), Num(3), Str("3")}, co \in {Undef, Num(2)}}

HoldingElems ==
  {Obj([location |-> Str("Central"), available |-> Num(2), total |-> Num(3)]),
   Obj([location |-> Str("North"), status |-> Str("unavailable")]),
   Obj([branch |-> Str("East"), available |-> Num(0),
        status |-> Str("available")]),
   Obj([name |-> Str("West"), availability |-> Str("available"),
        count |-> Num(2)]),
   Obj([location |-> Str("South"), available |-> Str("2"),
        total |-> Obj([toString |-> Num(1)])]),
   Str("Depot"), Null, EmptyObj}

HoldingsShapes ==
  {Undef} \cup CountedHoldings \cup {Arr(<<h>>) : h \in CountedHoldings}
    \cup Arrays(HoldingElems)

\* Payloads with several holdings-bearing keys and the top-level counts.
HoldingsFamily ==
  {With(Base, "holdings", h) : h \in HoldingsShapes}
  \cup
  {With(With(With(With(With(Base, "holdings", h), "availability", a),
                  "buildings", b), "availableCount", ac), "totalCount", tc) :
     h \in {Undef, Arr(<<>>),
            Arr(<<Obj([location |-> Str("Central"), available |-> Num(2),
                       total |-> Num(3)])>>)},
     a \in {Undef, Arr(<<>>), Str("available"),
            Arr(<<Obj([branch |-> Str("East"), available |-> Num(1)])>>)},
     b \in {Undef, Str("Main"),
            Arr(<<Obj([building |-> Str("South"), count |-> Num(4)])>>)},
     ac \in {Undef, Num(0), Num(4)}, tc \in {Undef, Num(9)}}

SeriesElems == {Str("Saga"), Null, Obj([name |-> Str("Trilogy")]), EmptyObj}

DetailFamily ==
  {With(With(With(With(Base, "series", se), "seriesNames", sn),
             "subjects", su), "summary", sm) :
     se \in Shapes(SeriesElems), sn \in {Undef, Str("Names")},
     su \in {Undef, Str("History"), Arr(<<Str("History"), Str("War")>>)},
     sm \in {Undef, Str("short"), Arr(<<Str("s1"), Str("s2")>>)}}

\* The detail-only fields read from a primary and a secondary key.
DetailKeyPairs ==
  {<<"subjects", "subject">>, <<"tableOfContents", "contents">>,
   <<"isbn", "isbns">>}

DetailPairsFamily ==
  {With(With(Base, p[1], a), p[2], b) :
     p \in DetailKeyPairs,
     a \in {Undef, Null, Str(""), Str("p"), Arr(<<>>),
            Arr(<<Str("p1"), Str("p2")>>)},
     b \in {Undef, Str(""), Str("s"), Arr(<<Str("s1"), Str("s2")>>)}}

\* The raw catalog entries of the model.
RawRecords ==
  AuthorsFamily \cup ImagesFamily \cup FormatsFamily \cup PublishersFamily
  \cup DescriptionsFamily \cup LanguagesFamily \cup IdTitleFamily
  \cup UrlYearFamily \cup HoldingsFamily \cup DetailFamily
  \cup DetailPairsFamily

\* Another identified record, for an envelope that also carries its own id.
Other == Obj([id |-> Str("o9"), title |-> Str("Other")])

\* The decoded bodies a single-record fetch may answer with for raw: the
\* bare record, the record in a results envelope, and envelopes (with or
\* without the keys of raw) whose records key is empty, not an array, or
\* holds a null or another record.
Envelopes(raw) ==
  {raw,
   Obj([records |-> Arr(<<raw>>)]),
   Obj([records |-> Arr(<<raw, Other>>)]),
   With(raw, "records", Arr(<<>>)),
   With(raw, "records", Arr(<<Other>>)),
   With(raw, "records", Str("none")),
   Obj([records |-> Arr(<<>>)]),
   Obj([records |-> Arr(<<Null>>)]),
   With(raw, "records", Arr(<<Null>>)),
   Obj([records |-> Arr(<<Str("x1")>>)]),
   Obj([resultCount |-> Num(0)]),
   Null}

\* A fetch result: the HTTP status is ok and the body decodes to body, or
\* the status is not ok.
Responses(raw) ==
  {[ok |-> TRUE, body |-> b] : b \in Envelopes(raw)}
  \cup {[ok |-> FALSE, body |-> Undef]}

\* The decoded bodies a search may answer with, around raw: records absent,
\* not a sequence, empty, or holding raw, with and without resultCount.
SearchBodies(raw) ==
  {EmptyObj,
   Obj([resultCount |-> Num(5)]),
   Obj([resultCount |-> Num(0)]),
   Obj([records |-> Arr(<<raw>>)]),
   Obj([records |-> Arr(<<raw, Other>>), resultCount |-> Num(7)]),
   Obj([records |-> raw]),
   Obj([records |-> raw, resultCount |-> Num(0)]),
   Obj([records |-> Str("none")]),
   Obj([records |-> Arr(<<>>), resultCount |-> Num(0)]),
   Obj([records |-> Obj([length |-> Num(5)])]),
   Null}

SearchResponses(raw) ==
  {[ok |-> TRUE, body |-> b] : b \in SearchBodies(raw)}
  \cup {[ok |-> FALSE, body |-> Undef]}

\* Queries given to searchBooks: three that pass its validation and four
\* whose trimmed text is too short.
SearchQueries ==
  {"ab", " cd ", "\tab\n", "a ", "a\t", "a" \o VerticalTab, ""}

\* The id route parameter of the detail screen.
RouteIds == {Undef, Str("x1")}

\* ------------------------------------------------------------------------
\* State
\* ------------------------------------------------------------------------
VARIABLES
  raw,        \* the raw catalog entry the operations are run on
  pc,         \* which operation has run
  rec,        \* outcome of transformRecord(raw)
  rec2,       \* outcome of transformRecord on the record of rec
  avail,      \* outcome of extractAvailability(raw)
  hold,       \* outcome of extractHoldings(raw)
  imageUrl,   \* outcome of getBookImageUrl on the record of rec
  found,      \* outcome of searchBooks on a response around raw
  routeId,    \* the id parameter of the detail screen
  response,   \* the fetch result getBookDetails received
  normalized, \* the argument getBookDetails gave to transformRecord
  detail,     \* outcome of getBookDetails
  loading,    \* BookDetailScreen state
  bookData,
  error

\* SearchScreen (src/unnamed/part_001:13-20, with pages, and
\* src/app/(tabs)/search.tsx:14-18, without) and what surrounds it.
VARIABLES
  paginated,    \* which of the two screens is mounted: TRUE for part_001
  searchQuery,
  isSearching,
  isLoadingMore,
  results,      \* the value of the results state, an array as a rule
  totalResults,
  currentPage,
  hasMore,
  searchError,  \* the screen's error state
  timers,       \* the queries of the pending debounce timers
  inflight,     \* the bag of performSearch calls awaiting their fetch
  resultsFor,   \* the queries the elements of results were fetched for
  handled,      \* the performSearch call the last step completed, if any
  effectQuery,  \* the searchQuery the debounce effect last ran for
  renderFailed  \* a state updater threw and React took the screen down

catalogVars ==
  <<raw, pc, rec, rec2, avail, hold, imageUrl, found, routeId, response,
    normalized, detail, loading, bookData, error>>

searchStateVars ==
  <<searchQuery, isSearching, isLoadingMore, results, totalResults,
    currentPage, hasMore, searchError>>

searchVars ==
  <<paginated, searchStateVars, timers, inflight, resultsFor, handled,
    effectQuery, renderFailed>>

vars == <<catalogVars, searchVars>>

screenVars == <<loading, bookData, error>>
pureVars == <<rec, rec2, avail, hold, imageUrl, found>>
fetchVars == <<routeId, response, normalized, detail>>

BookIdMissing == Str("Book ID is missing")
BookDataIncomplete == Str("Book data is incomplete")

\* No performSearch call completed in the last step.
NoneHandled == [k |-> "none"]

\* The search screen as mounted: the useState values of
\* src/unnamed/part_001:13-20 and the timer the debounce effect sets on
\* mount. The screen of src/app/(tabs)/search.tsx:14-18 has no
\* isLoadingMore, currentPage and hasMore: they keep these values.
SearchMounted ==
  /\ searchQuery = ""
  /\ isSearching = FALSE /\ isLoadingMore = FALSE
  /\ results = Arr(<<>>) /\ totalResults = Num(0)
  /\ currentPage = 1 /\ hasMore = FALSE /\ searchError = Null
  /\ timers = {""} /\ effectQuery = "" /\ inflight = EmptyBag
  /\ resultsFor = {} /\ handled = NoneHandled
  /\ renderFailed = FALSE

\* useState(true), useState(null), useState(null) (src/app/book/[id].tsx:12-14)
Init ==
  /\ raw \in RawRecords
  /\ pc = "idle"
  /\ rec = NoCall /\ rec2 = NoCall /\ avail = NoCall /\ hold = NoCall
  /\ imageUrl = NoCall /\ found = NoCall
  /\ routeId = Undef /\ response = NoCall
  /\ normalized = NoCall /\ detail = NoCall
  /\ loading = TRUE /\ bookData = Null /\ error = Null
  /\ paginated = TRUE
  /\ SearchMounted

\* transformRecord on the raw entry, as searchBooks maps it over records.
TransformRecord ==
  /\ pc = "idle"
  /\ rec' = transformRecord(raw)
  /\ pc' = "normalized"
  /\ UNCHANGED <<raw, rec2, avail, hold, imageUrl, found, fetchVars, screenVars>>
  /\ UNCHANGED searchVars

\* transformRecord on an already canonical record.
TransformAgain ==
  /\ pc = "normalized"
  /\ rec.k = "ok"
  /\ rec2' = transformRecord(rec.v)
  /\ pc' = "renormalized"
  /\ UNCHANGED <<raw, rec, avail, hold, imageUrl, found, fetchVars, screenVars>>
  /\ UNCHANGED searchVars

\* The card of a search result (src/components/BookCard.tsx:13).
GetBookImageUrl ==
  /\ pc = "normalized"
  /\ rec.k = "ok"
  /\ imageUrl' = getBookImageUrl(rec.v)
  /\ pc' = "card"
  /\ UNCHANGED <<raw, rec, rec2, avail, hold, found, fetchVars, screenVars>>
  /\ UNCHANGED searchVars

\* searchBooks(query) with its fetch answered (src/services/finnaApi.ts:20-66).
SearchBooks ==
  /\ pc = "idle"
  /\ \E query \in SearchQueries : \E r \in SearchResponses(raw) :
       found' = [query |-> query, fetched |-> Fetches(query),
                 out |-> searchBooks(query, r.ok, r.body)]
  /\ pc' = "searched"
  /\ UNCHANGED <<raw, rec, rec2, avail, hold, imageUrl, fetchVars, screenVars>>
  /\ UNCHANGED searchVars

ExtractAvailability ==
  /\ pc = "idle"
  /\ avail' = extractAvailability(raw)
  /\ pc' = "availability"
  /\ UNCHANGED <<raw, rec, rec2, hold, imageUrl, found, fetchVars, screenVars>>
  /\ UNCHANGED searchVars

ExtractHoldings ==
  /\ pc = "idle"
  /\ hold' = extractHoldings(raw)
  /\ pc' = "holdings"
  /\ UNCHANGED <<raw, rec, rec2, avail, imageUrl, found, fetchVars, screenVars>>
  /\ UNCHANGED searchVars

\* fetchBookDetails up to the await (src/app/book/[id].tsx:17-28).
FetchBookDetails ==
  /\ pc = "idle"
  /\ \E id \in RouteIds :
       /\ routeId' = id
       /\ IF ~Truthy(id)
          THEN /\ error' = BookIdMissing
               /\ loading' = FALSE
               /\ pc' = "done"
          ELSE /\ loading' = TRUE
               /\ error' = Null
               /\ pc' = "fetching"
  /\ UNCHANGED <<raw, pureVars, response, normalized, detail, bookData>>
  /\ UNCHANGED searchVars

\* The fetch answers: the rest of getBookDetails, then the rest of
\* fetchBookDetails (src/app/book/[id].tsx:28-41).
ReceiveBookDetails ==
  /\ pc = "fetching"
  /\ \E r \in Responses(raw) :
       \E data \in {getBookDetails(routeId, r.ok, r.body)} :
          /\ response' = r
          /\ normalized' = NormalizerInput(routeId, r.ok, r.body)
          /\ detail' = data
          /\ IF data.k = "ok"
             THEN IF Truthy(data.v) /\ Truthy(Get(data.v, "title"))
                  THEN bookData' = data.v /\ error' = error
                  ELSE bookData' = bookData /\ error' = BookDataIncomplete
             ELSE bookData' = bookData /\ error' = Str(data.e)
  /\ loading' = FALSE
  /\ pc' = "done"
  /\ UNCHANGED <<raw, pureVars, routeId>>
  /\ UNCHANGED searchVars

Next ==
  \/ TransformRecord
  \/ TransformAgain
  \/ GetBookImageUrl
  \/ SearchBooks
  \/ ExtractAvailability
  \/ ExtractHoldings
  \/ FetchBookDetails
  \/ ReceiveBookDetails

Spec == Init /\ [][Next]_vars

\* ------------------------------------------------------------------------
\* SearchScreen: the screen with pages (src/unnamed/part_001:12-103) and
\* the screen without (src/app/(tabs)/search.tsx:13-59)
\* ------------------------------------------------------------------------
MaxPage == 2
MaxInFlight == 2

\* What the user types: nothing, a text that is too short once trimmed, and
\* two searchable texts.
Queries == {"", "a ", "ab", "cd"}

\* The raw records of a result page: two identified ones and one without id.
R1 == Obj([id |-> Str("r1")])
R2 == Obj([id |-> Str("r2")])
NoId == Obj([title |-> Str("T")])

\* A record whose id is a sequence: transformRecord passes the id through
\* as it is (src/services/finnaApi.ts:130).
ListId == Obj([id |-> Arr(<<Str("a")>>)])

\* The decoded bodies of a result page: null, or an object with records
\* absent, a text or a sequence (empty, with a record without id, with a
\* repeated id, with ids that are sequences), resultCount absent, a number
\* or a text (of 2, and of the least decimal above 1 with 36 fraction
\* digits that does not round to 1).
PageBodies ==
  {EmptyObj,
   Null,
   Obj([records |-> Arr(<<>>), resultCount |-> Num(3)]),
   Obj([records |-> Arr(<<NoId, R1>>)]),
   Obj([records |-> Arr(<<R2, R2, ListId, ListId>>),
        resultCount |-> Num(3)]),
   Obj([records |-> Arr(<<R1, R2>>), resultCount |-> Num(2)]),
   Obj([records |-> Str("none")]),
   Obj([records |-> Arr(<<R1>>), resultCount |-> Str("2")]),
   Obj([records |-> Arr(<<R1>>),
        resultCount |-> Str("1.000000000000000111022302462515654043")])}

PageResponses ==
  {[ok |-> TRUE, body |-> b] : b \in PageBodies}
  \cup {[ok |-> FALSE, body |-> Undef]}

Request(query, page, append) ==
  [query |-> query, page |-> page, append |-> append]

Handled(req, ok) ==
  [k |-> "done", append |-> req.append, ok |-> ok]

\* Whether === and Set membership compare v by value: an array or an
\* object is equal to itself only, and each decoded record holds its own.
ByValue(v) == v.t \notin {"array", "object"}

\* new Set(prev.map(r => r.id)): a primitive id once, an array or object id
\* once for each record that holds it.
Ids(records) ==
  {IF ByValue(Get(records[i], "id")) THEN Get(records[i], "id")
   ELSE [t |-> "reference", of |-> i] : i \in 1..Len(records)}

\* existingIds.has(id), for the id of a record of another response.
Has(existingIds, id) == ByValue(id) /\ id \in existingIds

\* a === b, for the ids of two different records.
StrictEquals(a, b) == ByValue(a) /\ a = b

\* newRecords.filter((record, index, self) => record.id &&
\*   index === self.findIndex(r => r.id === record.id)), on the first n.
RECURSIVE UniqueRecords(_, _)
UniqueRecords(newRecords, n) ==
  IF n = 0 THEN <<>>
  ELSE IF /\ Truthy(Get(newRecords[n], "id"))
          /\ \A j \in 1..(n - 1) :
               ~StrictEquals(Get(newRecords[j], "id"),
                             Get(newRecords[n], "id"))
       THEN Append(UniqueRecords(newRecords, n - 1), newRecords[n])
       ELSE UniqueRecords(newRecords, n - 1)

\* newRecords.filter(r => r.id && !existingIds.has(r.id)), on the first n.
RECURSIVE UniqueNewRecords(_, _, _)
UniqueNewRecords(prev, newRecords, n) ==
  IF n = 0 THEN <<>>
  ELSE IF /\ Truthy(Get(newRecords[n], "id"))
          /\ ~Has(Ids(prev), Get(newRecords[n], "id"))
       THEN Append(UniqueNewRecords(prev, newRecords, n - 1), newRecords[n])
       ELSE UniqueNewRecords(prev, newRecords, n - 1)

\* The results a failed call leaves (lines 71-74; search.tsx:39).
ResultsAfterFailure(append, prev) == IF append THEN prev ELSE Arr(<<>>)

\* The catch and finally blocks (lines 67-78) of the call req; those of
\* search.tsx:35-43 are the ones of a call that does not append.
FailSearch(req, message) ==
  /\ searchError' = Str(message)
  /\ results' = ResultsAfterFailure(req.append, results)
  /\ resultsFor' = IF req.append THEN resultsFor ELSE {}
  /\ totalResults' = IF req.append THEN totalResults ELSE Num(0)
  /\ isSearching' = FALSE /\ isLoadingMore' = FALSE
  /\ handled' = Handled(req, FALSE)
  /\ UNCHANGED <<currentPage, hasMore>>

\* Whether the filter of lines 49-52 or 57-59 throws: filter is a method
\* of arrays only, and its callback reads the id of every record.
FilterThrows(newRecords) ==
  \/ ~IsArray(newRecords)
  \/ \E i \in 1..Len(newRecords.a) : IsNullish(newRecords.a[i])

\* The updater of lines 47-53 throws (filter, or the comparison with a
\* totalCount that has no primitive). React calls the updater, so the throw
\* is not one of the try block: it fails the render of the screen. Where
\* that error stays inside React (batched updates, an error boundary of
\* the router) lines 65-66 run; where the render is synchronous and the
\* error leaves setResults, the catch block runs. finally runs in both.
UpdaterThrows(req, totalCount) ==
  /\ \/ /\ totalResults' = totalCount
        /\ currentPage' = req.page
        /\ UNCHANGED searchError
     \/ /\ searchError' = Str(TypeError)
        /\ UNCHANGED <<totalResults, currentPage>>
  /\ isSearching' = FALSE /\ isLoadingMore' = FALSE
  /\ handled' = Handled(req, FALSE)
  /\ renderFailed' = TRUE
  /\ UNCHANGED <<results, resultsFor, hasMore>>

\* Lines 42-66 and 75-78 of the call req, for the value searchBooks
\* returned. response.records of null or undefined throws in the try
\* block; so do, when append is false, the filter of line 57 and the
\* comparison of line 62.
ApplyResponse(req, answer) ==
  LET newRecords == Or(Get(answer, "records"), Arr(<<>>))
      totalCount == Or(Get(answer, "resultCount"), Num(0))
      added == IF req.append
               THEN UniqueNewRecords(results.a, newRecords.a,
                                     Len(newRecords.a))
               ELSE UniqueRecords(newRecords.a, Len(newRecords.a))
      updated == IF req.append THEN results.a \o added ELSE added
  IN IF IsNullish(answer)
     THEN FailSearch(req, TypeError) /\ UNCHANGED renderFailed
     ELSE IF ~FilterThrows(newRecords) /\ ~NoPrimitive(totalCount)
     THEN /\ results' = Arr(updated)
          /\ resultsFor' = (IF req.append THEN resultsFor ELSE {})
                             \cup (IF added = <<>> THEN {} ELSE {req.query})
          /\ hasMore' = Exceeds(totalCount, Len(updated))
          /\ totalResults' = totalCount
          /\ currentPage' = req.page
          /\ isSearching' = FALSE /\ isLoadingMore' = FALSE
          /\ handled' = Handled(req, TRUE)
          /\ UNCHANGED <<searchError, renderFailed>>
     ELSE IF req.append THEN UpdaterThrows(req, totalCount)
     ELSE FailSearch(req, TypeError) /\ UNCHANGED renderFailed

\* Lines 31-33 and 41-43 of performSearch in src/app/(tabs)/search.tsx,
\* for the value searchBooks returned: the records and the count are
\* stored as they come, whatever they are. response.records of null or
\* undefined throws in the try block.
StoreResponse(req, answer) ==
  IF IsNullish(answer) THEN FailSearch(req, TypeError)
  ELSE /\ results' = Or(Get(answer, "records"), Arr(<<>>))
       /\ resultsFor' = IF results' = Arr(<<>>) THEN {} ELSE {req.query}
       /\ totalResults' = Or(Get(answer, "resultCount"), Num(0))
       /\ isSearching' = FALSE
       /\ handled' = Handled(req, TRUE)
       /\ UNCHANGED <<searchError, isLoadingMore, currentPage, hasMore>>

\* performSearch(query, page, append) up to its await (lines 23-41); a
\* query searchBooks rejects fails before any fetch, in the same step.
\* performSearch(query) of search.tsx:20-31 is the call of page 1 that
\* does not append.
PerformSearch(query, page, append) ==
  IF Len(query) < 2
  THEN /\ results' = Arr(<<>>) /\ resultsFor' = {}
       /\ totalResults' = Num(0)
       /\ searchError' = Null
       /\ currentPage' = 1
       /\ hasMore' = FALSE
       /\ handled' = NoneHandled
       /\ UNCHANGED <<isSearching, isLoadingMore, inflight>>
  ELSE IF ~Fetches(query)
  THEN /\ FailSearch(Request(query, page, append), QueryTooShort)
       /\ UNCHANGED inflight
  ELSE /\ BagCardinality(inflight) < MaxInFlight
       /\ inflight' = inflight (+) SetToBag({Request(query, page, append)})
       /\ IF append
          THEN isLoadingMore' = TRUE /\ UNCHANGED <<isSearching, searchError>>
          ELSE /\ isSearching' = TRUE /\ searchError' = Null
               /\ UNCHANGED isLoadingMore
       /\ handled' = NoneHandled
       /\ UNCHANGED <<results, resultsFor, totalResults, currentPage,
                      hasMore>>

\* The debounce effect on a change of searchQuery (lines 82-88;
\* search.tsx:46-52): the
\* cleanup clears the timer of the previous query, the effect sets one for
\* the new query.
TimersAfterEdit(pending, old, new) == (pending \ {old}) \cup {new}

\* A render with a changed searchQuery is committed and its debounce effect
\* has not run yet. React runs a passive effect after the commit, at once
\* or in a later task, depending on its version and on the event.
EffectPending == effectQuery # searchQuery

\* The timers once the pending effect has run. React runs the pending
\* passive effects before it renders again, so every step that sets state
\* ends with them run.
Flushed(pending) ==
  IF EffectPending THEN TimersAfterEdit(pending, effectQuery, searchQuery)
  ELSE pending

\* onChangeText with another text: the state change and its render. The
\* effect of the render before it has run by then; its own is pending.
EditQuery ==
  \E q \in Queries \ {searchQuery} :
    /\ ~renderFailed
    /\ searchQuery' = q
    /\ timers' = Flushed(timers)
    /\ effectQuery' = searchQuery
    /\ handled' = NoneHandled
    /\ UNCHANGED <<isSearching, isLoadingMore, results, totalResults,
                   currentPage, hasMore, searchError, inflight, resultsFor,
                   renderFailed, paginated, catalogVars>>

\* The clear button (src/components/SearchBar.tsx:31-35) and handleClear
\* (lines 96-103; search.tsx:54-59).
HandleClear ==
  /\ ~renderFailed
  /\ searchQuery # ""
  /\ searchQuery' = ""
  /\ timers' = Flushed(timers)
  /\ effectQuery' = searchQuery
  /\ results' = Arr(<<>>) /\ resultsFor' = {}
  /\ totalResults' = Num(0)
  /\ currentPage' = 1
  /\ hasMore' = FALSE
  /\ searchError' = Null
  /\ handled' = NoneHandled
  /\ UNCHANGED <<isSearching, isLoadingMore, inflight, renderFailed,
                 paginated, catalogVars>>

\* React runs the pending debounce effect (lines 82-88; search.tsx:46-52):
\* the cleanup of the
\* effect before it, then the effect of the committed render.
FlushEffect ==
  /\ ~renderFailed
  /\ EffectPending
  /\ timers' = Flushed(timers)
  /\ effectQuery' = searchQuery
  /\ handled' = NoneHandled
  /\ UNCHANGED <<searchStateVars, inflight, resultsFor, renderFailed,
                 paginated, catalogVars>>

\* A debounce timer fires (lines 83-85; search.tsx:47-49).
DebounceFires ==
  \E q \in timers :
    /\ ~renderFailed
    /\ timers' = Flushed(timers \ {q})
    /\ effectQuery' = searchQuery
    /\ PerformSearch(q, 1, FALSE)
    /\ UNCHANGED <<searchQuery, renderFailed, paginated, catalogVars>>

\* onEndReached (lines 90-94), of the screen with pages only.
LoadMore ==
  /\ paginated
  /\ ~renderFailed
  /\ ~isLoadingMore /\ hasMore /\ Len(searchQuery) >= 2
  /\ currentPage < MaxPage
  /\ PerformSearch(searchQuery, currentPage + 1, TRUE)
  /\ timers' = Flushed(timers)
  /\ effectQuery' = searchQuery
  /\ UNCHANGED <<searchQuery, renderFailed, paginated, catalogVars>>

\* What searchBooks(query, {limit: 20, page, lng: 'en'}) (line 41) returns
\* or throws, for each query and each answer of the catalog.
SearchAnswers ==
  {[query |-> q, out |-> searchBooks(q, r.ok, r.body)] :
     q \in Queries, r \in PageResponses}

\* The fetch of a pending call answers. The cleanup of the debounce effect
\* (line 87) clears the timer of a screen that is taken down, and the state
\* setters of an unmounted screen do nothing.
ReceiveSearch ==
  \E req \in BagToSet(inflight) : \E answer \in SearchAnswers :
    /\ ~renderFailed
    /\ answer.query = req.query
    /\ inflight' = inflight (-) SetToBag({req})
    /\ IF answer.out.k = "throw"
       THEN FailSearch(req, answer.out.e) /\ UNCHANGED renderFailed
       ELSE IF paginated THEN ApplyResponse(req, answer.out.v)
       ELSE StoreResponse(req, answer.out.v) /\ UNCHANGED renderFailed
    /\ timers' = IF renderFailed' THEN {} ELSE Flushed(timers)
    /\ effectQuery' = searchQuery
    /\ UNCHANGED <<searchQuery, paginated, catalogVars>>

\* Either search screen is mounted; no catalog operation runs while it is
\* shown.
SearchInit ==
  /\ raw = EmptyObj /\ pc = "search"
  /\ rec = NoCall /\ rec2 = NoCall /\ avail = NoCall /\ hold = NoCall
  /\ imageUrl = NoCall /\ found = NoCall
  /\ routeId = Undef /\ response = NoCall
  /\ normalized = NoCall /\ detail = NoCall
  /\ loading = TRUE /\ bookData = Null /\ error = Null
  /\ paginated \in BOOLEAN
  /\ SearchMounted

SearchNext ==
  \/ EditQuery
  \/ HandleClear
  \/ FlushEffect
  \/ DebounceFires
  \/ LoadMore
  \/ ReceiveSearch

SearchSpec == SearchInit /\ [][SearchNext]_vars

\* ------------------------------------------------------------------------
\* Properties
\* ------------------------------------------------------------------------
PluralFields ==
  {"authors", "images", "formats", "publishers", "descriptions", "languages"}

\* C1: whenever transformRecord returns a record, each of authors, images,
\* formats, publishers, descriptions and languages is an array, whatever
\* the shape of the raw field (absent, bare scalar, single object, array).
PluralFieldsAreSequences ==
  /\ rec.k = "ok" => \A f \in PluralFields : IsArray(Get(rec.v, f))
  /\ rec2.k = "ok" => \A f \in PluralFields : IsArray(Get(rec2.v, f))

\* A bare scalar publishers and a single format object were coerced to
\* one-element arrays.
WitnessScalarCoerced ==
  /\ pc = "normalized" /\ rec.k = "ok"
  /\ Get(raw, "publishers") = Str("a")
  /\ Get(rec.v, "publishers") = Arr(<<Str("a")>>)

\* C2: normalizing the canonical record a second time yields the same
\* canonical record, field by field.
RoundTripIdempotent == pc = "renormalized" => rec2 = rec

\* C3: transformRecord, the detail extraction, extractAvailability and
\* extractHoldings always complete with a result: no call ends in a
\* TypeError.
NormalizationTotal ==
  /\ rec.k # "throw" /\ rec2.k # "throw"
  /\ avail.k # "throw" /\ hold.k # "throw"
  /\ detail.k = "throw" => detail.e # TypeError

\* ------------------------------------------------------------------------
\* Envelope resolution and the title of a detail
\* ------------------------------------------------------------------------
IdKeys == {"id", "recordId", "@id"}

\* v is an object carrying a non-empty identifier under one of the keys.
HasIdentifier(v) ==
  /\ v.t = "object"
  /\ \E k \in IdKeys :
       k \in DOMAIN v.o /\ v.o[k] \notin {Null, Str(""), Num(0)}

\* A fetch was answered with an ok status and a decoded body.
Answered ==
  /\ pc = "done"
  /\ response # NoCall
  /\ response.ok
  /\ response.body.t = "object"

HasRecords(body) ==
  /\ "records" \in DOMAIN body.o
  /\ body.o.records.t = "array"
  /\ Len(body.o.records.a) > 0

\* C4: with a non-empty records array the record is its first element;
\* otherwise a response carrying id, recordId or @id is itself the record;
\* otherwise the response is malformed.
EnvelopeResolutionOrder ==
  Answered =>
    LET body == response.body
    IN IF HasRecords(body)
       THEN /\ normalized.k = "ok" => normalized.v = body.o.records.a[1]
            /\ HasIdentifier(body.o.records.a[1]) => normalized.k = "ok"
       ELSE IF HasIdentifier(body)
            THEN normalized = Ok(body)
            ELSE detail = Throw(InvalidBookData)

\* A bare record with no records key was resolved as the record itself.
WitnessBareRecord ==
  /\ Answered
  /\ "records" \notin DOMAIN response.body.o
  /\ Get(response.body, "id") = Str("x1")
  /\ normalized = Ok(response.body)
  /\ detail.k = "ok"

\* The record the response resolves to.
ResolvedRecord(body) ==
  IF HasRecords(body) THEN body.o.records.a[1] ELSE body

\* C5: a response whose resolved record has no identifier fails with the
\* invalid-response error without transformRecord being called, and
\* transformRecord is only called on an object that has an identifier.
UnidentifiedNeverNormalized ==
  /\ normalized.k = "ok" => HasIdentifier(normalized.v)
  /\ (Answered /\ ~HasIdentifier(ResolvedRecord(response.body))) =>
       /\ detail = Throw(InvalidBookData)
       /\ normalized = NoCall

\* The empty envelope {records: []} failed with the invalid-response error.
WitnessEmptyEnvelope ==
  /\ Answered
  /\ response.body = Obj([records |-> Arr(<<>>)])
  /\ detail = Throw(InvalidBookData)
  /\ normalized = NoCall

TitleKeys == {"title", "titleFull", "titleMain"}

\* No title-bearing key of the record holds a non-empty string.
NoTitle(v) ==
  \A k \in TitleKeys : k \in DOMAIN v.o => v.o[k] \in {Null, Str("")}

\* C6: every detail getBookDetails returns has a non-empty title, which is
\* the placeholder when no title key yields one, and the screen never
\* reports a missing title as an error.
DetailTitleNeverEmpty ==
  /\ detail.k = "ok" =>
       /\ Get(detail.v, "title") \notin {Undef, Null, Str("")}
       /\ NoTitle(normalized.v) => Get(detail.v, "title") = Str("Untitled")
       /\ pc = "done" => bookData = detail.v
  /\ detail.k = "throw" => detail.e \in {InvalidBookData, ApiError, TypeError}
  /\ error # BookDataIncomplete

\* A record with an identifier and no title was shown as "Untitled".
WitnessPlaceholderTitle ==
  /\ pc = "done" /\ detail.k = "ok"
  /\ NoTitle(normalized.v)
  /\ "title" \in DOMAIN normalized.v.o
  /\ Get(bookData, "title") = Str("Untitled")
  /\ error = Null

\* ------------------------------------------------------------------------
\* Availability
\* ------------------------------------------------------------------------
SourceKeys == <<"holdings", "availability", "buildings">>

\* A key is present when the payload carries it with a value that is not
\* null, "" or 0.
Present(data, k) ==
  k \in DOMAIN data.o /\ data.o[k] \notin {Null, Str(""), Num(0)}

\* The first present holdings-bearing key, 0 when there is none.
FirstSource(data) ==
  IF \E i \in 1..3 : Present(data, SourceKeys[i])
  THEN CHOOSE i \in 1..3 :
         /\ Present(data, SourceKeys[i])
         /\ \A j \in 1..(i - 1) : ~Present(data, SourceKeys[j])
  ELSE 0

\* The elements of the first present key, coerced to a sequence.
UsedHoldings(data) ==
  IF FirstSource(data) = 0 THEN <<>>
  ELSE LET v == data.o[SourceKeys[FirstSource(data)]]
       IN IF v.t = "array" THEN v.a ELSE <<v>>

\* The payload without the holdings-bearing keys after the first present.
OnlyFirstSource(data) ==
  Obj([k \in {x \in DOMAIN data.o :
                \A j \in 1..3 :
                  x = SourceKeys[j] => j <= FirstSource(data)}
        |-> data.o[k]])

NonZeroNumber(h, k) ==
  h.t = "object" /\ k \in DOMAIN h.o /\ h.o[k].t = "number" /\ h.o[k].n # 0

\* total, else count, else 1
PerLocationTotal(h) ==
  IF NonZeroNumber(h, "total") THEN h.o.total.n
  ELSE IF NonZeroNumber(h, "count") THEN h.o.count.n
  ELSE 1

RECURSIVE SeqSum(_)
SeqSum(q) == IF q = <<>> THEN 0 ELSE Head(q) + SeqSum(Tail(q))

Locations == Get(avail.v, "locations").a

\* available field if numeric (also 0), else 1 for an "available" status or
\* availability, else 0
PerLocationAvailable(h) ==
  IF h.t = "object" /\ "available" \in DOMAIN h.o
     /\ h.o.available.t = "number"
  THEN h.o.available
  ELSE IF Get(h, "status") = Str("available")
          \/ Get(h, "availability") = Str("available")
       THEN Num(1)
       ELSE Num(0)

\* C7: when a holdings source is used, locations has one entry per holding,
\* in input order, carrying that holding's per-location available; the
\* aggregate available is the sum of the entries' available, and the
\* aggregate total is the sum of the per-location totals (total, else
\* count, else 1).
AggregatesAreSums ==
  (avail.k = "ok" /\ Len(UsedHoldings(raw)) > 0) =>
    LET hs == UsedHoldings(raw)
    IN /\ Len(Locations) = Len(hs)
       /\ \A i \in 1..Len(hs) :
            /\ Get(Locations[i], "available") = PerLocationAvailable(hs[i])
            /\ Get(Locations[i], "available").t = "number"
       /\ Get(avail.v, "available") =
            Num(SeqSum([i \in 1..Len(hs) |->
                          Get(Locations[i], "available").n]))
       /\ Get(avail.v, "total") =
            Num(SeqSum([i \in 1..Len(hs) |-> PerLocationTotal(hs[i])]))

\* C8: each location's available is the holding's available field whenever
\* that is a number (0 included), else 1 when its status or availability is
\* "available", else 0.
AvailableFieldWins ==
  (avail.k = "ok" /\ Len(UsedHoldings(raw)) > 0) =>
    \A i \in 1..Len(Locations) :
      Get(Locations[i], "available") =
        PerLocationAvailable(UsedHoldings(raw)[i])

\* C9: the result is null exactly when none of holdings, availability,
\* buildings, availableCount, totalCount is present in the payload.
AbsentIffNoKey ==
  avail.k = "ok" =>
    (avail.v = Null <=>
       /\ \A i \in 1..3 : ~Present(raw, SourceKeys[i])
       /\ "availableCount" \notin DOMAIN raw.o
       /\ "totalCount" \notin DOMAIN raw.o)

\* C10: only the first present key among holdings, availability, buildings
\* is used: the locations are that key's elements, and dropping the later
\* keys from the payload leaves the result unchanged.
FirstSourceOnly ==
  avail.k = "ok" =>
    /\ avail = extractAvailability(OnlyFirstSource(raw))
    /\ IF Len(UsedHoldings(raw)) > 0
       THEN /\ Len(Locations) = Len(UsedHoldings(raw))
            /\ \A i \in 1..Len(Locations) :
                 Get(Locations[i], "location")
                   = LocationName(UsedHoldings(raw)[i])
       ELSE avail.v = Null \/ Len(Locations) = 0

\* holdings, availability and buildings all present: the one location is
\* that of holdings.
WitnessHoldingsBeforeOthers ==
  /\ pc = "availability" /\ avail.k = "ok"
  /\ Present(raw, "holdings") /\ Present(raw, "availability")
  /\ Present(raw, "buildings")
  /\ Len(Wrap(Get(raw, "availability")).a) > 0
  /\ Len(UsedHoldings(raw)) > 0
  /\ Len(Locations) = 1
  /\ Get(Locations[1], "location") = Str("Central")
  /\ Get(avail.v, "total") = Num(3)

\* ------------------------------------------------------------------------
\* Fields of the canonical record
\* ------------------------------------------------------------------------
\* The record without key k.
WithoutKey(o, k) == Obj([x \in DOMAIN o.o \ {k} |-> o.o[x]])

Authors == Get(rec.v, "authors")

\* C11: authors is primaryAuthors only when primaryAuthors is a non-empty
\* array; in every other case authors is what the authors field alone
\* gives.
PrimaryAuthorsOnlyIfNonEmpty ==
  (pc = "normalized" /\ rec.k = "ok") =>
    LET pa == Get(raw, "primaryAuthors")
        derived == AuthorsOf(WithoutKey(raw, "primaryAuthors"))
    IN IF pa.t = "array" /\ Len(pa.a) > 0
       THEN Authors = pa
       ELSE derived.k = "ok" => Authors = derived.v

\* The raw key a plural field is read from: descriptions comes from
\* summaries, else description.
RawSource(data, field) ==
  IF field = "descriptions"
  THEN IF Get(data, "summaries") \notin {Undef, Null, Str(""), Num(0)}
       THEN Get(data, "summaries")
       ELSE Get(data, "description")
  ELSE Get(data, field)

\* C12: every plural field obeys the toList law: an absent raw value gives
\* the empty sequence, a present string or single object gives a sequence
\* of one element (the string itself for a string), and a raw array gives a
\* sequence of the same length.
ToListLaw ==
  (pc = "normalized" /\ rec.k = "ok"
   /\ "primaryAuthors" \notin DOMAIN raw.o) =>
    \A f \in PluralFields :
      LET x == RawSource(raw, f)
          out == Get(rec.v, f).a
      IN /\ x = Undef => out = <<>>
         /\ x.t = "array" => Len(out) = Len(x.a)
         /\ (x.t = "string" /\ x.s # "") => out = <<x>>
         /\ x.t = "object" => Len(out) = 1

\* v is an object carrying a non-empty string under key k.
HasText(v, k) ==
  v.t = "object" /\ k \in DOMAIN v.o /\ v.o[k].t = "string" /\ v.o[k].s # ""

\* The generic string conversion of the format elements of the model.
GenericString(v) ==
  IF v.t = "object" THEN Str("[object Object]") ELSE Str(ToString(v.n))

\* translated, else value, else the generic string; a string as it is.
ExpectedFormat(f) ==
  IF f.t = "string" THEN f
  ELSE IF HasText(f, "translated") THEN f.o.translated
  ELSE IF HasText(f, "value") THEN f.o.value
  ELSE GenericString(f)

\* C13: each element of formats that is an object is normalized to its
\* translated value, else its value, else a generic string conversion, and
\* string elements are kept unchanged.
FormatsPreferTranslated ==
  (pc = "normalized" /\ rec.k = "ok"
   /\ Get(raw, "formats") \notin {Undef, Null, Str("")}) =>
    LET fs == Wrap(Get(raw, "formats")).a
        out == Get(rec.v, "formats").a
    IN /\ Len(out) = Len(fs)
       /\ \A i \in 1..Len(fs) : out[i] = ExpectedFormat(fs[i])

\* [{value: "Book", translated: "Kirja"}] gave ["Kirja"].
WitnessKirja ==
  /\ pc = "normalized" /\ rec.k = "ok"
  /\ Get(raw, "formats") =
       Arr(<<Obj([value |-> Str("Book"), translated |-> Str("Kirja")])>>)
  /\ Get(rec.v, "formats") = Arr(<<Str("Kirja")>>)

\* ------------------------------------------------------------------------
\* Fields of the detail
\* ------------------------------------------------------------------------
DetailPluralFields ==
  {"summary", "subjects", "tableOfContents", "isbn", "issn",
   "physicalDescriptions", "series", "genres", "holdings"}

\* C14: in every returned detail each detail-only plural field is a flat
\* sequence: an array none of whose elements is an array.
DetailFieldsAreFlatSequences ==
  detail.k = "ok" =>
    \A f \in DetailPluralFields :
      LET v == Get(detail.v, f)
      IN /\ v.t = "array"
         /\ \A i \in 1..Len(v.a) : v.a[i].t # "array"

\* Each singular convenience field with its plural field.
SingularOf ==
  {<<"author", "authors">>, <<"image", "images">>,
   <<"publisher", "publishers">>, <<"description", "descriptions">>}

\* C15: each singular convenience field is the first element of its
\* plural field when that is non-empty, and empty otherwise.
SingularIsFirstOfPlural ==
  (pc = "normalized" /\ rec.k = "ok") =>
    \A p \in SingularOf :
      LET plural == Get(rec.v, p[2]).a
      IN Get(rec.v, p[1]) = IF Len(plural) > 0 THEN plural[1] ELSE Str("")

\* ------------------------------------------------------------------------
\* Availability counts and the holdings list
\* ------------------------------------------------------------------------
IsCount(v) == v.t = "number" /\ v.n >= 0

\* C16: in every availability structure available and total are
\* non-negative numbers, and so is the available of every location.
CountsAreNonNegative ==
  (avail.k = "ok" /\ avail.v # Null) =>
    /\ IsCount(Get(avail.v, "available"))
    /\ IsCount(Get(avail.v, "total"))
    /\ \A i \in 1..Len(Locations) : IsCount(Get(Locations[i], "available"))

NoSource(data) == \A i \in 1..3 : ~Present(data, SourceKeys[i])

CountOrZero(data, k) == IF Present(data, k) THEN data.o[k] ELSE Num(0)

\* Without a holdings-bearing key and with a count key, the result is the
\* two counts and no locations.
CountsFallbackValues ==
  (avail.k = "ok" /\ NoSource(raw)
   /\ ("availableCount" \in DOMAIN raw.o \/ "totalCount" \in DOMAIN raw.o)) =>
    avail.v = Obj([available |-> CountOrZero(raw, "availableCount"),
                   total |-> CountOrZero(raw, "totalCount"),
                   locations |-> Arr(<<>>)])

\* A structure without locations is only returned without a
\* holdings-bearing key.
CountsFallbackOnlyWithoutSource ==
  (avail.k = "ok" /\ avail.v # Null
   /\ Get(avail.v, "locations") = Arr(<<>>)) => NoSource(raw)

\* C17: when none of holdings, availability, buildings is present and
\* availableCount or totalCount is, the result is available = availableCount
\* (0 if missing), total = totalCount (0 if missing) and no locations; and
\* this fallback is used only when no holdings-bearing key is present.
CountsFallbackLaw == CountsFallbackValues /\ CountsFallbackOnlyWithoutSource

ToSeq(v) == IF v.t = "array" THEN v.a ELSE <<v>>

\* The first of the values that is not absent, null, "" or 0; else dflt.
FirstPresentValue(vals, dflt) ==
  IF \E i \in 1..Len(vals) : vals[i] \notin {Undef, Null, Str(""), Num(0)}
  THEN vals[CHOOSE i \in 1..Len(vals) :
              /\ vals[i] \notin {Undef, Null, Str(""), Num(0)}
              /\ \A j \in 1..(i - 1) :
                   vals[j] \in {Undef, Null, Str(""), Num(0)}]
  ELSE dflt

\* C18: the holdings list is derived from the holdings key alone: one entry
\* per element of holdings (coerced to a sequence) in input order, empty
\* when holdings is absent whatever availability and buildings hold, and
\* each entry's status is the holding's status, else its availability, else
\* "unknown".
HoldingsListFromHoldingsKey ==
  (pc = "holdings" /\ hold.k = "ok") =>
    IF Present(raw, "holdings")
    THEN LET src == ToSeq(raw.o.holdings)
             out == hold.v.a
         IN /\ Len(out) = Len(src)
            /\ \A i \in 1..Len(src) :
                 /\ Get(out[i], "location") =
                      FirstPresentValue(<<Get(src[i], "location"),
                                          Get(src[i], "branch")>>, Str(""))
                 /\ Get(out[i], "status") =
                      FirstPresentValue(<<Get(src[i], "status"),
                                          Get(src[i], "availability")>>,
                                        Str("unknown"))
    ELSE hold.v = Arr(<<>>)

WitnessAvailabilityIgnored ==
  /\ pc = "holdings" /\ hold = Ok(Arr(<<>>))
  /\ ~Present(raw, "holdings")
  /\ Present(raw, "availability") /\ Present(raw, "buildings")

\* ------------------------------------------------------------------------
\* Priority chains
\* ------------------------------------------------------------------------
LinksRecordPage(record) ==
  IF Get(record, "links").t = "object"
  THEN Get(Get(record, "links"), "recordPage") ELSE Undef

\* C19: id is id, else recordId, else @id, else ""; title is title, else
\* titleFull, else titleMain, else ""; url is url, else recordPage, else
\* links.recordPage, else "", a missing links object counting as absent.
ScalarPriorityChains ==
  (pc = "normalized" /\ rec.k = "ok") =>
    /\ Get(rec.v, "id") =
         FirstPresentValue(<<Get(raw, "id"), Get(raw, "recordId"),
                             Get(raw, "@id")>>, Str(""))
    /\ Get(rec.v, "title") =
         FirstPresentValue(<<Get(raw, "title"), Get(raw, "titleFull"),
                             Get(raw, "titleMain")>>, Str(""))
    /\ Get(rec.v, "url") =
         FirstPresentValue(<<Get(raw, "url"), Get(raw, "recordPage"),
                             LinksRecordPage(raw)>>, Str(""))

WitnessLaterKeys ==
  /\ pc = "normalized" /\ rec.k = "ok"
  /\ Get(raw, "id") = Str("") /\ Get(raw, "recordId") = Str("x2")
  /\ Get(raw, "title") = Null /\ Get(raw, "titleFull") = Undef
  /\ Get(rec.v, "id") = Str("x2") /\ Get(rec.v, "title") = Str("T3")

\* The primary key coerced to a sequence, else the secondary, else empty.
CoercedSource(data, primary, secondary) ==
  IF Present(data, primary) THEN ToSeq(data.o[primary])
  ELSE IF Present(data, secondary) THEN ToSeq(data.o[secondary])
  ELSE <<>>

\* A series element: a string as it is, an object as its name, else the
\* generic string.
ExpectedSeries(x) ==
  IF x.t = "string" THEN x
  ELSE IF HasText(x, "name") THEN x.o.name
  ELSE GenericString(x)

\* C20: each detail-only field is its primary key coerced to a sequence
\* when that key is present, its secondary key coerced to a sequence when
\* the primary is absent, and empty when both are absent; series elements
\* that are objects resolve to their name.
PrimaryThenSecondary ==
  (pc = "done" /\ detail.k = "ok" /\ normalized.k = "ok") =>
    LET data == normalized.v
    IN /\ \A p \in DetailKeyPairs :
            Get(detail.v, p[1]) = Arr(CoercedSource(data, p[1], p[2]))
       /\ LET src == CoercedSource(data, "series", "seriesNames")
               out == Get(detail.v, "series")
           IN /\ out.t = "array" /\ Len(out.a) = Len(src)
              /\ \A i \in 1..Len(src) : out.a[i] = ExpectedSeries(src[i])

WitnessSecondaryKey ==
  /\ pc = "done" /\ detail.k = "ok" /\ normalized.k = "ok"
  /\ ~Present(normalized.v, "isbn")
  /\ Get(normalized.v, "isbns") = Str("s")
  /\ Get(detail.v, "isbn") = Arr(<<Str("s")>>)

\* ------------------------------------------------------------------------
\* The image of a card
\* ------------------------------------------------------------------------
IsAbsoluteUrl(v) == v.t = "string" /\ StartsWithHttp(v.s)

\* A usable image: a string that is not empty.
Usable(v) == v.t = "string" /\ v.s # ""

\* v as an absolute URL.
Absolute(v) == IF StartsWithHttp(v.s) THEN v ELSE Str(FinnaHost \o v.s)

\* C30: getBookImageUrl returns null or a string beginning with "http":
\* the first element of images, made absolute, when images is not empty,
\* otherwise image made absolute, and null exactly when the record has
\* neither a usable images element nor a usable image.
ImageUrlNullOrAbsolute ==
  (pc = "card" /\ imageUrl.k = "ok") =>
    LET images == Get(rec.v, "images").a
        image == Get(rec.v, "image")
    IN /\ imageUrl.v = Null \/ IsAbsoluteUrl(imageUrl.v)
       /\ (Len(images) > 0 /\ Usable(images[1])) =>
            imageUrl.v = Absolute(images[1])
       /\ (Len(images) = 0 /\ Usable(image)) => imageUrl.v = Absolute(image)
       /\ imageUrl.v = Null <=>
            (~(\E i \in 1..Len(images) : Usable(images[i])) /\ ~Usable(image))

\* ------------------------------------------------------------------------
\* The value searchBooks returns
\* ------------------------------------------------------------------------
\* A value transformRecord returns: an object with the six plural fields
\* as sequences.
IsCanonical(v) ==
  /\ v.t = "object"
  /\ \A f \in PluralFields : f \in DOMAIN v.o /\ v.o[f].t = "array"

\* C29: whenever searchBooks returns, records is a sequence whose elements
\* are outputs of transformRecord and resultCount is a number, whatever the
\* shape of the decoded body.
SearchResponseShape ==
  (pc = "searched" /\ found.out.k = "ok") =>
    LET records == Get(found.out.v, "records")
    IN /\ records.t = "array"
       /\ \A i \in 1..Len(records.a) : IsCanonical(records.a[i])
       /\ Get(found.out.v, "resultCount").t = "number"

\* ------------------------------------------------------------------------
\* The search screen
\* ------------------------------------------------------------------------
Quiet == BagCardinality(inflight) = 0

\* At most one debounce timer is pending; once the effect of the last
\* change has run it is the timer of the current query.
OnePendingTimer ==
  /\ Cardinality(timers) <= 1
  /\ ~EffectPending => timers \subseteq {searchQuery}

\* The calls a step sends to the catalog.
Issued(req) == CopiesIn(req, inflight') > CopiesIn(req, inflight)

\* A page-1 search is sent only by the timer of the current query firing.
SearchOnlyWhenTimerFires ==
  [][\A req \in BagToSet(inflight') :
       (Issued(req) /\ ~req.append) =>
         /\ req.page = 1
         /\ req.query = searchQuery /\ searchQuery' = searchQuery
         /\ req.query \in timers /\ req.query \notin timers']_vars

\* C21: a page-1 search is issued only once the debounce timer of the
\* unchanged searchQuery fires; every change of searchQuery cancels the
\* pending timer, so at most one timer is pending and a query replaced
\* before its timer fired produces no request.
DebounceLaw == []OnePendingTimer /\ SearchOnlyWhenTimerFires

\* C22: once no request is in flight and no debounce timer is pending, the
\* displayed results are those returned for the current searchQuery: a
\* response to an earlier query never overwrites those of a later one.
ResultsAreForCurrentQuery ==
  (Quiet /\ timers = {} /\ ~EffectPending) =>
    resultsFor \subseteq {searchQuery}

\* C23: all records held in results were returned by requests for one and
\* the same query string.
ResultsOfOneQuery == paginated => Cardinality(resultsFor) <= 1

\* C24: results holds no two records with the same id and no record with an
\* empty id.
ResultIdsUnique ==
  paginated =>
    \A i \in 1..Len(results.a) :
      /\ Get(results.a[i], "id") \notin {Undef, Null, Str("")}
      /\ \A j \in 1..Len(results.a) :
           i # j => Get(results.a[i], "id") # Get(results.a[j], "id")

\* C25: whenever no request is in flight, hasMore is true exactly when
\* results.length < totalResults.
HasMoreIffFewerThanTotal ==
  (paginated /\ Quiet) =>
    /\ totalResults.t = "number"
    /\ hasMore <=> Len(results.a) < totalResults.n

\* C26: for a fixed query every applied loadMore response brings the end
\* nearer: it lengthens results or sets hasMore to false, so that repeated
\* loadMore calls reach hasMore = false after finitely many requests.
PaginationProgress ==
  [][(/\ paginated
      /\ handled'.k = "done" /\ handled'.append /\ handled'.ok
      /\ searchQuery' = searchQuery /\ resultsFor' \subseteq {searchQuery})
       => (Len(results'.a) > Len(results.a) \/ ~hasMore')]_vars

\* C27: a failed loadMore leaves results, totalResults, currentPage and
\* hasMore unchanged and only sets the error and clears isLoadingMore
\* (searchQuery and isSearching stay as they are); a failed non-append
\* search empties results and sets totalResults to 0; and currentPage
\* advances only when a response is applied successfully.
FailureHandling ==
  [][paginated =>
     /\ (handled'.k = "done" /\ ~handled'.ok) =>
          /\ searchError' \notin {Null, Str("")}
          /\ IF handled'.append
             THEN /\ UNCHANGED <<results, totalResults, currentPage, hasMore>>
                  /\ ~isLoadingMore'
                  /\ UNCHANGED <<searchQuery, isSearching>>
             ELSE results' = Arr(<<>>) /\ totalResults' = Num(0)
     /\ currentPage' > currentPage => (handled'.k = "done" /\ handled'.ok)]_vars

\* C28: no search started from the screen raises the error of searchBooks's
\* own validation; and searchBooks raises it, without any fetch, exactly
\* when the trimmed query is shorter than 2 characters.
ScreenQueriesPassValidation ==
  /\ searchError # Str(QueryTooShort)
  /\ \A q \in Queries \cup SearchQueries :
       /\ searchBooks(q, TRUE, EmptyObj) = Throw(QueryTooShort)
            <=> Len(Trim(q)) < 2
       /\ Fetches(q) <=> Len(Trim(q)) >= 2

====
